---------------------------- MODULE Spec2Model ----------------------------
(***************************************************************************)
(* A model of mod_accounting (src/mod_accounting.c): the two Apache hooks  *)
(* module_accounting_start / module_accounting_stop, the two difference    *)
(* functions they publish with, and the request_rec graph (main / prev /   *)
(* next, one notes table per request_rec) they walk.                       *)
(***************************************************************************)
EXTENDS Integers, Sequences, FiniteSets, TLC

VARIABLES
    alloc,      \* number of request_recs the server has created (1..alloc)
    main,       \* request_rec.main  : NodeIds -> NodeIds or NULL
    prev,       \* request_rec.prev
    next,       \* request_rec.next
    notes,      \* request_rec.notes : one apr_table per request_rec
    log,        \* lines the most recent call handed to ap_log_error
    call,       \* the most recent call: which function, on which request_rec
    ret,        \* the value the most recent call returned
    syscalls,   \* system calls the most recent call made, in order
    end_data,   \* module_accounting_stop's locals end_time, end_own_usage,
                \* end_child_usage as they were when it returned
    args,       \* inputs drawn at the start of a run of SpecValues, SpecTime
                \* or SpecBlock
    walk        \* SpecWalk: the locals r, initial, last of a hook whose loops
                \* are run one iteration at a time, and where it stands

vars == <<alloc, main, prev, next, notes, log, call, ret, syscalls, end_data, args,
          walk>>

-----------------------------------------------------------------------------
(* Bounds of the model *)

\* request_recs the server creates in one run
MaxNodes == 3
\* largest tv_sec drawn for the time_difference arguments
MaxSec == 2
\* largest block count drawn for the block_difference arguments
MaxBlocks == 10

(* Program constants *)

\* the null pointer; request_recs are numbered from 1
NULL == 0
\* httpd.h: the hook's "not a final handler" return value
DECLINED == -1
\* microseconds per second, the factor of time_difference
USEC_PER_SEC == 1000000

NodeIds == 1..MaxNodes
Allocated == 1..alloc

notes_key_internal == "ACC_INTERNAL"
notes_key_time     == "ACC_time"
notes_key_utime    == "ACC_utime"
notes_key_stime    == "ACC_stime"
notes_key_cutime   == "ACC_cutime"
notes_key_cstime   == "ACC_cstime"
notes_key_inblock  == "ACC_inblock"
notes_key_oublock  == "ACC_oublock"
notes_key_cinblock == "ACC_cinblock"
notes_key_coublock == "ACC_coublock"

-----------------------------------------------------------------------------
(* Values *)

\* struct timeval
timeval(sec, usec) == [tv_sec |-> sec, tv_usec |-> usec]

\* the fields of struct rusage the module reads
rusage(ut, st, inb, oub) ==
    [ru_utime |-> ut, ru_stime |-> st, ru_inblock |-> inb, ru_oublock |-> oub]

\* acc_data, the block stored under ACC_INTERNAL
acc_data(t, own, child) ==
    [begin_time |-> t, begin_own_usage |-> own, begin_child_usage |-> child,
     zero |-> 0]

-----------------------------------------------------------------------------
(* apr_psprintf(pool, "%ld", n): the decimal text of a long, as the         *)
(* sequence of its characters.                                              *)

DigitChars == <<"0", "1", "2", "3", "4", "5", "6", "7", "8", "9">>

RECURSIVE fmt_unsigned(_)
fmt_unsigned(n) ==
    IF n < 10 THEN <<DigitChars[n + 1]>>
    ELSE fmt_unsigned(n \div 10) \o <<DigitChars[(n % 10) + 1]>>

apr_psprintf_ld(n) ==
    IF n < 0 THEN <<"-">> \o fmt_unsigned(-n) ELSE fmt_unsigned(n)

-----------------------------------------------------------------------------
(* apr_table_get / apr_table_setn on a notes table: a table is a function   *)
(* from the keys set so far to their values.                                *)

apr_table_make == [k \in {} |-> <<>>]

apr_table_has(t, key) == key \in DOMAIN t

apr_table_setn(t, key, val) ==
    [k \in (DOMAIN t) \cup {key} |-> IF k = key THEN val ELSE t[k]]

-----------------------------------------------------------------------------
(* time_difference: the result and the lines it logs.  retval is computed  *)
(* as a long long and returned as a long; the times of the hooks' runs and  *)
(* of SpecTime keep it below 2^31 microseconds, which either type holds     *)
(* exactly.  time_difference_long (SpecWide) is the function beyond that.   *)

\* a check that compares seconds and microseconds each on its own, so that a
\* smaller microsecond part alone counts as going back in time
time_difference_no_borrow(begin, end) ==
    IF \/ end.tv_sec < begin.tv_sec
       \/ end.tv_usec < begin.tv_usec
    THEN [retval |-> 0,
          log    |-> <<[level |-> "ERR", msg |-> "Timetraveling",
                        begin_tv |-> begin, end_tv |-> end]>>]
    ELSE [retval |-> (end.tv_sec - begin.tv_sec) * USEC_PER_SEC
                        + (end.tv_usec - begin.tv_usec),
          log    |-> <<>>]

\* a check that compares the seconds only
time_difference_sec_only(begin, end) ==
    IF end.tv_sec < begin.tv_sec
    THEN [retval |-> 0,
          log    |-> <<[level |-> "ERR", msg |-> "Timetraveling",
                        begin_tv |-> begin, end_tv |-> end]>>]
    ELSE [retval |-> (end.tv_sec - begin.tv_sec) * USEC_PER_SEC
                        + (end.tv_usec - begin.tv_usec),
          log    |-> <<>>]

time_difference(begin, end) ==
    IF \/ end.tv_sec < begin.tv_sec
       \/ /\ end.tv_sec = begin.tv_sec
          /\ end.tv_usec < begin.tv_usec
    THEN [retval |-> 0,
          log    |-> <<[level |-> "ERR", msg |-> "Timetraveling",
                        begin_tv |-> begin, end_tv |-> end]>>]
    ELSE [retval |-> (end.tv_sec - begin.tv_sec) * USEC_PER_SEC
                        + (end.tv_usec - begin.tv_usec),
          log    |-> <<>>]

(* block_difference: the result and the lines it logs *)

\* a version without the sanity check
block_difference_unchecked(begin, end) ==
    [retval |-> end - begin, log |-> <<>>]

block_difference(begin, end) ==
    IF begin > end
    THEN [retval |-> 0,
          log    |-> <<[level |-> "ERR", msg |-> "Negative blockcount",
                        begin_blk |-> begin, end_blk |-> end]>>]
    ELSE [retval |-> end - begin,
          log    |-> <<>>]

-----------------------------------------------------------------------------
(* Walking the request_rec graph *)

\* if (x->main) x = x->main;  -- one step up instead of the loop
follow_main_once(r) == IF main[r] # NULL THEN main[r] ELSE r

\* while (x->main) x = x->main;
RECURSIVE follow_main(_)
follow_main(r) == IF main[r] # NULL THEN follow_main(main[r]) ELSE r

\* while (x->prev) x = x->prev;
RECURSIVE follow_prev(_)
follow_prev(r) == IF prev[r] # NULL THEN follow_prev(prev[r]) ELSE r

\* while (x->next) x = x->next;
RECURSIVE follow_next(_)
follow_next(r) == IF next[r] # NULL THEN follow_next(next[r]) ELSE r

\* a version that keeps the reference values in one place for the whole
\* process: on the first request_rec the server created
start_initial_shared(r) == follow_prev(follow_main(1))

\* module_accounting_start: "initial" once both loops are done
start_initial(r) == follow_prev(follow_main(r))

\* a stop hook that looks for the reference values on the main request
\* without walking prev
stop_initial_no_walk(r) == follow_main(r)

\* module_accounting_stop: "initial" once its loops are done
stop_initial(r) == follow_prev(follow_main(r))

\* a stop hook that publishes on the main request without walking next
stop_last_no_walk(r) == follow_main(r)

\* module_accounting_stop: "last", set to the main request and then walked
\* along next
stop_last(r) == follow_next(follow_main(r))

-----------------------------------------------------------------------------
(* The three system queries of a hook.  sys is what the kernel answers:     *)
(* for each query its return code and, when that is 0, the value written.   *)
(* mem is what the destination held before the queries: apr_palloc'ed pool  *)
(* memory in module_accounting_start, automatic variables in                *)
(* module_accounting_stop; neither is initialised by the module.            *)

errline(msg) == [level |-> "ERR", msg |-> msg]

sys_answer(rc, val) == [rc |-> rc, val |-> val]

\* the destination of one query after the call: written on success, left as
\* it was on failure
query_result(answer, before) == IF answer.rc = -1 THEN before ELSE answer.val

\* the line logged when a query returns -1
query_log(answer, msg) == IF answer.rc = -1 THEN <<errline(msg)>> ELSE <<>>

\* the system calls of one capture, in program order
capture_calls ==
    <<"gettimeofday", "getrusage(RUSAGE_SELF)", "getrusage(RUSAGE_CHILDREN)">>

\* *data after the three queries of module_accounting_start
begin_data(sys, mem) ==
    acc_data(query_result(sys.tod, mem.time),
             query_result(sys.own, mem.own),
             query_result(sys.child, mem.child))

begin_log(sys) ==
    query_log(sys.tod, "Request for (begin) time of day failed")
    \o query_log(sys.own, "Request for (begin) resource usage failed")
    \o query_log(sys.child, "Request for children's (begin) resource usage failed")

\* end_time, end_own_usage, end_child_usage after the three queries of
\* module_accounting_stop
end_locals(sys, mem) ==
    [end_time        |-> query_result(sys.tod, mem.time),
     end_own_usage   |-> query_result(sys.own, mem.own),
     end_child_usage |-> query_result(sys.child, mem.child)]

end_log(sys) ==
    query_log(sys.tod, "Request for (end) time of day failed")
    \o query_log(sys.own, "Request for (end) resource usage failed")
    \o query_log(sys.child, "Request for children's (end) resource usage failed")

\* the same locals before any query has written them
uninit_locals(mem) ==
    [end_time |-> mem.time, end_own_usage |-> mem.own,
     end_child_usage |-> mem.child]

-----------------------------------------------------------------------------
(* Publication: the nine apr_table_setn calls of module_accounting_stop, in *)
(* program order, each with the key it sets and the difference it formats.  *)

\* a version whose user-time call was pasted from the system-time call and
\* still reads the ru_stime fields
deltas_pasted(data, e) ==
    << [key  |-> notes_key_time,
        diff |-> time_difference(data.begin_time, e.end_time)],
       [key  |-> notes_key_utime,
        diff |-> time_difference(data.begin_own_usage.ru_stime,
                                 e.end_own_usage.ru_stime)],
       [key  |-> notes_key_stime,
        diff |-> time_difference(data.begin_own_usage.ru_stime,
                                 e.end_own_usage.ru_stime)],
       [key  |-> notes_key_inblock,
        diff |-> block_difference(data.begin_own_usage.ru_inblock,
                                  e.end_own_usage.ru_inblock)],
       [key  |-> notes_key_oublock,
        diff |-> block_difference(data.begin_own_usage.ru_oublock,
                                  e.end_own_usage.ru_oublock)],
       [key  |-> notes_key_cutime,
        diff |-> time_difference(data.begin_child_usage.ru_utime,
                                 e.end_child_usage.ru_utime)],
       [key  |-> notes_key_cstime,
        diff |-> time_difference(data.begin_child_usage.ru_stime,
                                 e.end_child_usage.ru_stime)],
       [key  |-> notes_key_cinblock,
        diff |-> block_difference(data.begin_child_usage.ru_inblock,
                                  e.end_child_usage.ru_inblock)],
       [key  |-> notes_key_coublock,
        diff |-> block_difference(data.begin_child_usage.ru_oublock,
                                  e.end_child_usage.ru_oublock)] >>

deltas(data, e) ==
    << [key  |-> notes_key_time,
        diff |-> time_difference(data.begin_time, e.end_time)],
       [key  |-> notes_key_utime,
        diff |-> time_difference(data.begin_own_usage.ru_utime,
                                 e.end_own_usage.ru_utime)],
       [key  |-> notes_key_stime,
        diff |-> time_difference(data.begin_own_usage.ru_stime,
                                 e.end_own_usage.ru_stime)],
       [key  |-> notes_key_inblock,
        diff |-> block_difference(data.begin_own_usage.ru_inblock,
                                  e.end_own_usage.ru_inblock)],
       [key  |-> notes_key_oublock,
        diff |-> block_difference(data.begin_own_usage.ru_oublock,
                                  e.end_own_usage.ru_oublock)],
       [key  |-> notes_key_cutime,
        diff |-> time_difference(data.begin_child_usage.ru_utime,
                                 e.end_child_usage.ru_utime)],
       [key  |-> notes_key_cstime,
        diff |-> time_difference(data.begin_child_usage.ru_stime,
                                 e.end_child_usage.ru_stime)],
       [key  |-> notes_key_cinblock,
        diff |-> block_difference(data.begin_child_usage.ru_inblock,
                                  e.end_child_usage.ru_inblock)],
       [key  |-> notes_key_coublock,
        diff |-> block_difference(data.begin_child_usage.ru_oublock,
                                  e.end_child_usage.ru_oublock)] >>

\* a version that gives up at the first call whose difference logged an
\* anomaly, leaving that key and the later ones unset
RECURSIVE publish_n_until_anomaly(_, _, _)
publish_n_until_anomaly(t, ds, n) ==
    IF n = 0 THEN t
    ELSE IF \E i \in 1..n : ds[i].diff.log # <<>>
         THEN publish_n_until_anomaly(t, ds, n - 1)
         ELSE apr_table_setn(publish_n_until_anomaly(t, ds, n - 1), ds[n].key,
                             apr_psprintf_ld(ds[n].diff.retval))

\* the table after the first n of the calls
RECURSIVE publish_n(_, _, _)
publish_n(t, ds, n) ==
    IF n = 0 THEN t
    ELSE apr_table_setn(publish_n(t, ds, n - 1), ds[n].key,
                        apr_psprintf_ld(ds[n].diff.retval))

publish(t, data, e) == publish_n(t, deltas(data, e), Len(deltas(data, e)))

\* the lines the first n of the calls log
RECURSIVE publish_log_n(_, _)
publish_log_n(ds, n) ==
    IF n = 0 THEN <<>> ELSE publish_log_n(ds, n - 1) \o ds[n].diff.log

publish_log(data, e) == publish_log_n(deltas(data, e), Len(deltas(data, e)))

-----------------------------------------------------------------------------
(* The hooks *)

\* a check that looks at no table and never finds the reference values
have_begin_data_never(initial) == FALSE

\* apr_table_get(initial->notes, notes_key_internal) != NULL
have_begin_data(initial) == apr_table_has(notes[initial], notes_key_internal)

\* a version that ends the processing of the request (DONE) when the
\* reference values are already there
module_accounting_start_done_when_present(r, sys, mem) ==
    LET initial == start_initial(r) IN
    /\ r \in Allocated
    /\ IF have_begin_data(initial)
       THEN /\ UNCHANGED notes
            /\ log' = <<>>
            /\ syscalls' = <<>>
            /\ ret' = -2
       ELSE /\ notes' = [notes EXCEPT ![initial] =
                            apr_table_setn(@, notes_key_internal,
                                           begin_data(sys, mem))]
            /\ log' = begin_log(sys)
            /\ syscalls' = capture_calls
            /\ ret' = DECLINED
    /\ call' = [fn |-> "module_accounting_start", r |-> r]
    /\ UNCHANGED <<alloc, main, prev, next, end_data, args, walk>>

module_accounting_start(r, sys, mem) ==
    LET initial == start_initial(r) IN
    /\ r \in Allocated
    /\ IF have_begin_data(initial)
       THEN /\ UNCHANGED notes
            /\ log' = <<>>
            /\ syscalls' = <<>>
       ELSE /\ notes' = [notes EXCEPT ![initial] =
                            apr_table_setn(@, notes_key_internal,
                                           begin_data(sys, mem))]
            /\ log' = begin_log(sys)
            /\ syscalls' = capture_calls
    /\ ret' = DECLINED
    /\ call' = [fn |-> "module_accounting_start", r |-> r]
    /\ UNCHANGED <<alloc, main, prev, next, end_data, args, walk>>

\* a version that reaps and samples before it looks for the reference values
module_accounting_stop_sample_first(r, sys, mem) ==
    LET initial == stop_initial(r)
        last    == stop_last(r)
        e       == end_locals(sys, mem)
    IN
    /\ r \in Allocated
    /\ IF ~have_begin_data(initial)
       THEN /\ UNCHANGED notes
            /\ log' = end_log(sys) \o <<errline("Failed to fetch internal data!")>>
       ELSE LET data == notes[initial][notes_key_internal] IN
            /\ notes' = [notes EXCEPT ![last] = publish(@, data, e)]
            /\ log' = end_log(sys) \o publish_log(data, e)
    /\ syscalls' = <<"wait4">> \o capture_calls
    /\ end_data' = e
    /\ ret' = DECLINED
    /\ call' = [fn |-> "module_accounting_stop", r |-> r]
    /\ UNCHANGED <<alloc, main, prev, next, args, walk>>

\* a version that takes the reference values out of the notes once it has
\* read them (apr_table_unset)
module_accounting_stop_consuming(r, sys, mem) ==
    LET initial == stop_initial(r)
        last    == stop_last(r)
    IN
    /\ r \in Allocated
    /\ IF ~have_begin_data(initial)
       THEN /\ UNCHANGED notes
            /\ log' = <<errline("Failed to fetch internal data!")>>
            /\ syscalls' = <<>>
            /\ end_data' = uninit_locals(mem)
       ELSE LET data == notes[initial][notes_key_internal]
                e    == end_locals(sys, mem)
                unset == [notes EXCEPT ![initial] =
                             [k \in DOMAIN @ \ {notes_key_internal} |-> @[k]]]
            IN
            /\ notes' = [unset EXCEPT ![last] = publish(@, data, e)]
            /\ log' = end_log(sys) \o publish_log(data, e)
            /\ syscalls' = <<"wait4">> \o capture_calls
            /\ end_data' = e
    /\ ret' = DECLINED
    /\ call' = [fn |-> "module_accounting_stop", r |-> r]
    /\ UNCHANGED <<alloc, main, prev, next, args, walk>>

\* a version that samples the end values first and waits for children last
module_accounting_stop_reap_last(r, sys, mem) ==
    LET initial == stop_initial(r)
        last    == stop_last(r)
    IN
    /\ r \in Allocated
    /\ IF ~have_begin_data(initial)
       THEN /\ UNCHANGED notes
            /\ log' = <<errline("Failed to fetch internal data!")>>
            /\ syscalls' = <<>>
            /\ end_data' = uninit_locals(mem)
       ELSE LET data == notes[initial][notes_key_internal]
                e    == end_locals(sys, mem)
            IN
            /\ notes' = [notes EXCEPT ![last] = publish(@, data, e)]
            /\ log' = end_log(sys) \o publish_log(data, e)
            /\ syscalls' = capture_calls \o <<"wait4">>
            /\ end_data' = e
    /\ ret' = DECLINED
    /\ call' = [fn |-> "module_accounting_stop", r |-> r]
    /\ UNCHANGED <<alloc, main, prev, next, args, walk>>

module_accounting_stop(r, sys, mem) ==
    LET initial == stop_initial(r)
        last    == stop_last(r)
    IN
    /\ r \in Allocated
    /\ IF ~have_begin_data(initial)
       THEN /\ UNCHANGED notes
            /\ log' = <<errline("Failed to fetch internal data!")>>
            /\ syscalls' = <<>>
            /\ end_data' = uninit_locals(mem)
       ELSE LET data == notes[initial][notes_key_internal]
                e    == end_locals(sys, mem)
            IN
            /\ notes' = [notes EXCEPT ![last] = publish(@, data, e)]
            /\ log' = end_log(sys) \o publish_log(data, e)
            /\ syscalls' = <<"wait4">> \o capture_calls
            /\ end_data' = e
    /\ ret' = DECLINED
    /\ call' = [fn |-> "module_accounting_stop", r |-> r]
    /\ UNCHANGED <<alloc, main, prev, next, args, walk>>

-----------------------------------------------------------------------------
(* The server: it creates the request_recs and links them.  An internal     *)
(* redirect appends a request_rec to r (prev / next, same main); a          *)
(* sub-request hangs a new request_rec below r (main).  Each new            *)
(* request_rec has a notes table of its own.                                *)

ap_internal_redirect(r) ==
    LET new == alloc + 1 IN
    /\ r \in Allocated
    /\ alloc < MaxNodes
    /\ next[r] = NULL
    /\ alloc' = new
    /\ next' = [next EXCEPT ![r] = new]
    /\ prev' = [prev EXCEPT ![new] = r]
    /\ main' = [main EXCEPT ![new] = main[r]]
    /\ notes' = [notes EXCEPT ![new] = apr_table_make]
    /\ log' = <<>>
    /\ syscalls' = <<>>
    /\ call' = [fn |-> "ap_internal_redirect", r |-> r]
    /\ UNCHANGED <<ret, end_data, args, walk>>

ap_sub_req(r) ==
    LET new == alloc + 1 IN
    /\ r \in Allocated
    /\ alloc < MaxNodes
    /\ alloc' = new
    /\ main' = [main EXCEPT ![new] = r]
    /\ notes' = [notes EXCEPT ![new] = apr_table_make]
    /\ log' = <<>>
    /\ syscalls' = <<>>
    /\ call' = [fn |-> "ap_sub_req", r |-> r]
    /\ UNCHANGED <<prev, next, ret, end_data, args, walk>>

-----------------------------------------------------------------------------
(* What the kernel can answer, and what uninitialised memory can hold *)

ZeroTime  == timeval(0, 0)
ZeroUsage == rusage(ZeroTime, ZeroTime, 0, 0)

\* wall-clock readings
TimeVals == { timeval(1000, 0), timeval(1002, 250000) }

\* resource usage readings (of the process, or of its children)
UsageVals ==
    { rusage(timeval(0, 500000), timeval(0, 900000), 50, 7),
      rusage(timeval(0, 900000), timeval(1, 50000), 30, 9),
      rusage(timeval(2, 100000), timeval(3, 0), 80, 12) }

\* memory the module never wrote: it may happen to be all zero bytes, or hold
\* whatever was there before
MemZero == [time |-> ZeroTime, own |-> ZeroUsage, child |-> ZeroUsage]

MemJunk ==
    [time  |-> timeval(1001, -2000000),
     own   |-> rusage(timeval(1, -2000000), timeval(0, 5000000), -5, 1000),
     child |-> rusage(timeval(0, 1500000), timeval(4, -1), 60, -3)]

MemVals == { MemZero, MemJunk }

Failed(zero) == sys_answer(-1, zero)

TodAnswers   == { sys_answer(0, t) : t \in TimeVals } \cup { Failed(ZeroTime) }
UsageAnswers == { sys_answer(0, u) : u \in UsageVals } \cup { Failed(ZeroUsage) }

\* every combination of answers to the three queries of one hook call
SysAnswers == [tod : TodAnswers, own : UsageAnswers, child : UsageAnswers]

\* the combinations drawn while the request graph grows: every query
\* answered, or every query failing
SysFew ==
    { s \in SysAnswers :
        \/ /\ s.tod.rc = -1 /\ s.own.rc = -1 /\ s.child.rc = -1
        \/ /\ s.tod.rc = 0 /\ s.own.rc = 0 /\ s.child.rc = 0
           /\ s.own.val.ru_inblock = 50
           /\ s.child.val.ru_inblock = 80 }

NoCall == [fn |-> "none", r |-> NULL]
NoArgs == [begin |-> 0, end |-> 0]
\* no hook is in its loops
NoWalk == [pc |-> "idle", r |-> NULL, initial |-> NULL, last |-> NULL]

-----------------------------------------------------------------------------
(* Spec: one transaction.  The server has read a request (request_rec 1,    *)
(* no links, empty notes); from then on it may redirect, create             *)
(* sub-requests, and run the two hooks on any request_rec.                  *)

Init ==
    /\ alloc = 1
    /\ main = [n \in NodeIds |-> NULL]
    /\ prev = [n \in NodeIds |-> NULL]
    /\ next = [n \in NodeIds |-> NULL]
    /\ notes = [n \in NodeIds |-> apr_table_make]
    /\ log = <<>>
    /\ call = NoCall
    /\ ret = DECLINED
    /\ syscalls = <<>>
    /\ end_data = uninit_locals(MemZero)
    /\ args = NoArgs
    /\ walk = NoWalk

Next ==
    \/ \E r \in Allocated : ap_internal_redirect(r)
    \/ \E r \in Allocated : ap_sub_req(r)
    \/ \E r \in Allocated, sys \in SysFew :
           module_accounting_start(r, sys, MemJunk)
    \/ \E r \in Allocated, sys \in SysFew :
           module_accounting_stop(r, sys, MemJunk)

Spec == Init /\ [][Next]_vars

-----------------------------------------------------------------------------
(* SpecValues: the hooks on a request that is not redirected, or was        *)
(* redirected once.  What the kernel answers to the queries of the start    *)
(* hook and of the stop hook, and what the memory they write to held        *)
(* before, is drawn at the start of the run (args), in every combination;   *)
(* when every query is answered the earlier contents are overwritten and    *)
(* one choice of them stands for all.                                       *)

AllAnswered(sys) == sys.tod.rc = 0 /\ sys.own.rc = 0 /\ sys.child.rc = 0

InitValues ==
    /\ alloc \in {1, 2}
    /\ main = [n \in NodeIds |-> NULL]
    /\ prev = [n \in NodeIds |-> IF alloc = 2 /\ n = 2 THEN 1 ELSE NULL]
    /\ next = [n \in NodeIds |-> IF alloc = 2 /\ n = 1 THEN 2 ELSE NULL]
    /\ notes = [n \in NodeIds |-> apr_table_make]
    /\ log = <<>>
    /\ call = NoCall
    /\ ret = DECLINED
    /\ syscalls = <<>>
    /\ end_data = uninit_locals(MemZero)
    /\ args \in [begin_sys : SysAnswers, begin_mem : MemVals,
                 end_sys : SysAnswers, end_mem : MemVals]
    /\ AllAnswered(args.begin_sys) => args.begin_mem = MemZero
    /\ AllAnswered(args.end_sys) => args.end_mem = MemZero
    /\ walk = NoWalk

NextValues ==
    \/ \E r \in Allocated :
           module_accounting_start(r, args.begin_sys, args.begin_mem)
    \/ \E r \in Allocated :
           module_accounting_stop(r, args.end_sys, args.end_mem)

SpecValues == InitValues /\ [][NextValues]_vars

-----------------------------------------------------------------------------
(* SpecTime, SpecBlock: the difference functions on their own, applied once *)
(* to arguments drawn from a grid.                                          *)

\* sub-second parts: the ends of the range and two values inside it
UsecVals == {0, 1, 250000, 999999}

TimeArgs == { timeval(s, u) : s \in 0..MaxSec, u \in UsecVals }

call_time_difference ==
    /\ call = NoCall
    /\ ret' = time_difference(args.begin, args.end).retval
    /\ log' = time_difference(args.begin, args.end).log
    /\ call' = [fn |-> "time_difference", r |-> NULL]
    /\ UNCHANGED <<alloc, main, prev, next, notes, syscalls, end_data, args, walk>>

InitTime ==
    /\ alloc = 1
    /\ main = [n \in NodeIds |-> NULL]
    /\ prev = [n \in NodeIds |-> NULL]
    /\ next = [n \in NodeIds |-> NULL]
    /\ notes = [n \in NodeIds |-> apr_table_make]
    /\ log = <<>>
    /\ call = NoCall
    /\ ret = DECLINED
    /\ syscalls = <<>>
    /\ end_data = uninit_locals(MemZero)
    /\ args \in [begin : TimeArgs, end : TimeArgs]
    /\ walk = NoWalk

SpecTime == InitTime /\ [][call_time_difference]_vars

call_block_difference ==
    /\ call = NoCall
    /\ ret' = block_difference(args.begin, args.end).retval
    /\ log' = block_difference(args.begin, args.end).log
    /\ call' = [fn |-> "block_difference", r |-> NULL]
    /\ UNCHANGED <<alloc, main, prev, next, notes, syscalls, end_data, args, walk>>

InitBlock ==
    /\ alloc = 1
    /\ main = [n \in NodeIds |-> NULL]
    /\ prev = [n \in NodeIds |-> NULL]
    /\ next = [n \in NodeIds |-> NULL]
    /\ notes = [n \in NodeIds |-> apr_table_make]
    /\ log = <<>>
    /\ call = NoCall
    /\ ret = DECLINED
    /\ syscalls = <<>>
    /\ end_data = uninit_locals(MemZero)
    /\ args \in [begin : 0..MaxBlocks, end : 0..MaxBlocks]
    /\ walk = NoWalk

SpecBlock == InitBlock /\ [][call_block_difference]_vars

-----------------------------------------------------------------------------
(* SpecWide: time_difference at its full width, applied once and its        *)
(* result published as the stop hook publishes it.  The function computes   *)
(* retval in a long long int and returns it as a long int; apr_psprintf     *)
(* prints a long int ("%ld").  A long int has 64 bits where the module is   *)
(* built LP64 and 32 bits where it is built ILP32; a long long int has 64   *)
(* bits on both.  Numbers beyond 31 bits are written as sign, millions and  *)
(* units: the value is (+/-)(mega * 1000000 + unit), 0 <= unit < 1000000.   *)
(* The seconds drawn differ by less than 2^31, so retval stays far below    *)
(* 2^63 and the long long arithmetic itself is exact.                       *)

\* bits of a long int: ILP32 and LP64 builds
LongBits == {32, 64}

wide(neg, mega, unit) == [neg |-> neg, mega |-> mega, unit |-> unit]

\* mega * 1000000 + unit, not negative, with -1000000 < unit < 1000000
wide_sum(mega, unit) ==
    IF unit < 0 THEN wide(FALSE, mega - 1, unit + USEC_PER_SEC)
    ELSE wide(FALSE, mega, unit)

\* retval = end->tv_sec - begin->tv_sec; retval *= 1000000;
\* retval += end->tv_usec - begin->tv_usec;
long_long_retval(begin, end) ==
    wide_sum(end.tv_sec - begin.tv_sec, end.tv_usec - begin.tv_usec)

\* a long long that is not negative, converted to a long int of 32 bits: it
\* keeps its low 32 bits (2^31 = 2147 483648, 2^32 = 4294 967296)
RECURSIVE long_long_to_long32(_)
long_long_to_long32(w) ==
    IF w.mega < 2147 \/ (w.mega = 2147 /\ w.unit <= 483647)
    THEN w
    ELSE IF w.mega < 4294 \/ (w.mega = 4294 /\ w.unit < 967296)
    THEN LET m == 4294 - w.mega
             u == 967296 - w.unit
         IN  IF u < 0 THEN wide(TRUE, m - 1, u + USEC_PER_SEC)
             ELSE wide(TRUE, m, u)
    ELSE long_long_to_long32(wide_sum(w.mega - 4294, w.unit - 967296))

\* return retval;  -- from long long int to the return type long int
return_long(w, bits) == IF bits = 64 THEN w ELSE long_long_to_long32(w)

time_difference_long(begin, end, bits) ==
    IF \/ end.tv_sec < begin.tv_sec
       \/ /\ end.tv_sec = begin.tv_sec
          /\ end.tv_usec < begin.tv_usec
    THEN [retval |-> wide(FALSE, 0, 0),
          log    |-> <<[level |-> "ERR", msg |-> "Timetraveling",
                        begin_tv |-> begin, end_tv |-> end]>>]
    ELSE [retval |-> return_long(long_long_retval(begin, end), bits),
          log    |-> <<>>]

\* apr_psprintf(pool, "%ld", n) for a long int n
apr_psprintf_ld_long(w) ==
    LET digits == IF w.mega = 0 THEN fmt_unsigned(w.unit)
                  ELSE fmt_unsigned(w.mega)
                       \o Tail(fmt_unsigned(USEC_PER_SEC + w.unit))
    IN  IF w.neg THEN <<"-">> \o digits ELSE digits

\* seconds around 2^31 and 2^32 microseconds, microseconds around the
\* remainders of both
WideSecs  == {0, 1, 2147, 2148, 4294, 4295}
WideUsecs == {0, 483647, 483648, 967296, 999999}
WideTimes == { timeval(s, u) : s \in WideSecs, u \in WideUsecs }

\* apr_table_setn(last->notes, notes_key_time,
\*                apr_psprintf(last->pool, "%ld", time_difference(..)))
call_time_difference_long ==
    /\ call = NoCall
    /\ LET d == time_difference_long(args.begin, args.end, args.long_bits) IN
       /\ ret' = d.retval
       /\ log' = d.log
       /\ notes' = [notes EXCEPT ![1] =
                       apr_table_setn(@, notes_key_time,
                                      apr_psprintf_ld_long(d.retval))]
    /\ call' = [fn |-> "time_difference", r |-> 1]
    /\ UNCHANGED <<alloc, main, prev, next, syscalls, end_data, args, walk>>

InitWide ==
    /\ alloc = 1
    /\ main = [n \in NodeIds |-> NULL]
    /\ prev = [n \in NodeIds |-> NULL]
    /\ next = [n \in NodeIds |-> NULL]
    /\ notes = [n \in NodeIds |-> apr_table_make]
    /\ log = <<>>
    /\ call = NoCall
    /\ ret = DECLINED
    /\ syscalls = <<>>
    /\ end_data = uninit_locals(MemZero)
    /\ args \in [begin : WideTimes, end : WideTimes, long_bits : LongBits]
    /\ walk = NoWalk

SpecWide == InitWide /\ [][call_time_difference_long]_vars

-----------------------------------------------------------------------------

(* SpecTwo: two transactions.  The server has read two requests on two      *)
(* workers (request_recs 1 and 2, no link between them, each with its own   *)
(* notes); either may be redirected or get sub-requests, and the hooks run  *)
(* on the request_recs of both in any order.  A hook reaches only its       *)
(* locals and the request_recs linked to r, so the calls of the two workers *)
(* are taken one after the other, in every order.  The kernel answers every *)
(* query (failed queries are the matter of SpecValues).                     *)

InitTwo ==
    /\ alloc = 2
    /\ main = [n \in NodeIds |-> NULL]
    /\ prev = [n \in NodeIds |-> NULL]
    /\ next = [n \in NodeIds |-> NULL]
    /\ notes = [n \in NodeIds |-> apr_table_make]
    /\ log = <<>>
    /\ call = NoCall
    /\ ret = DECLINED
    /\ syscalls = <<>>
    /\ end_data = uninit_locals(MemZero)
    /\ args = NoArgs
    /\ walk = NoWalk

\* the kernel answers every query
SysAnswered == { s \in SysFew : AllAnswered(s) }

NextTwo ==
    \/ \E r \in Allocated : ap_internal_redirect(r)
    \/ \E r \in Allocated : ap_sub_req(r)
    \/ \E r \in Allocated, sys \in SysAnswered :
           module_accounting_start(r, sys, MemZero)
    \/ \E r \in Allocated, sys \in SysAnswered :
           module_accounting_stop(r, sys, MemZero)

SpecTwo == InitTwo /\ [][NextTwo]_vars

-----------------------------------------------------------------------------

(* SpecWalk: the loops with which a hook finds "initial" and "last", run    *)
(* one iteration at a time (module_accounting_stop; module_accounting_start *)
(* has the first two loops).  The loops assign the locals initial and last  *)
(* and nothing else.  The server changes the request_recs between hooks,    *)
(* not while one runs; a hook that has begun runs on, hence the fairness.   *)

\* initial = r;
resolve_enter(r) ==
    /\ r \in Allocated
    /\ walk.pc \in {"idle", "done"}
    /\ walk' = [pc |-> "main", r |-> r, initial |-> r, last |-> NULL]
    /\ UNCHANGED <<alloc, main, prev, next, notes, log, call, ret, syscalls,
                   end_data, args>>

\* while (initial->main) initial = initial->main;  last = initial;
resolve_main ==
    /\ walk.pc = "main"
    /\ IF main[walk.initial] # NULL
       THEN walk' = [walk EXCEPT !.initial = main[walk.initial]]
       ELSE walk' = [walk EXCEPT !.last = walk.initial, !.pc = "prev"]
    /\ UNCHANGED <<alloc, main, prev, next, notes, log, call, ret, syscalls,
                   end_data, args>>

\* while (initial->prev) initial = initial->prev;
resolve_prev ==
    /\ walk.pc = "prev"
    /\ IF prev[walk.initial] # NULL
       THEN walk' = [walk EXCEPT !.initial = prev[walk.initial]]
       ELSE walk' = [walk EXCEPT !.pc = "next"]
    /\ UNCHANGED <<alloc, main, prev, next, notes, log, call, ret, syscalls,
                   end_data, args>>

\* if (last->next) last = last->next;  -- one step along instead of the loop
resolve_next_once ==
    /\ walk.pc = "next"
    /\ IF next[walk.last] # NULL
       THEN walk' = [walk EXCEPT !.last = next[walk.last], !.pc = "done"]
       ELSE walk' = [walk EXCEPT !.pc = "done"]
    /\ UNCHANGED <<alloc, main, prev, next, notes, log, call, ret, syscalls,
                   end_data, args>>

\* while (last->next) last = last->next;
resolve_next ==
    /\ walk.pc = "next"
    /\ IF next[walk.last] # NULL
       THEN walk' = [walk EXCEPT !.last = next[walk.last]]
       ELSE walk' = [walk EXCEPT !.pc = "done"]
    /\ UNCHANGED <<alloc, main, prev, next, notes, log, call, ret, syscalls,
                   end_data, args>>

resolve_step == resolve_main \/ resolve_prev \/ resolve_next

NextWalk ==
    \/ /\ walk.pc \in {"idle", "done"}
       /\ \E r \in Allocated : ap_internal_redirect(r)
    \/ /\ walk.pc \in {"idle", "done"}
       /\ \E r \in Allocated : ap_sub_req(r)
    \/ \E r \in Allocated : resolve_enter(r)
    \/ resolve_main
    \/ resolve_prev
    \/ resolve_next

SpecWalk == Init /\ [][NextWalk]_vars /\ WF_vars(resolve_step)

-----------------------------------------------------------------------------

(* The vocabulary of the properties.  These definitions say what the        *)
(* specification means by a chain, its first and last node, a delta and a   *)
(* published number; they are written without the module's own loops and    *)
(* difference functions.                                                    *)

MetricKeys ==
    { notes_key_time, notes_key_utime, notes_key_stime, notes_key_cutime,
      notes_key_cstime, notes_key_inblock, notes_key_oublock,
      notes_key_cinblock, notes_key_coublock }

\* a and b are neighbours in a redirect chain
Linked(a, b) == next[a] = b \/ prev[a] = b \/ next[b] = a \/ prev[b] = a

RECURSIVE LinkClosure(_)
LinkClosure(S) ==
    LET T == S \cup { m \in Allocated : \E a \in S : Linked(a, m) }
    IN  IF T = S THEN S ELSE LinkClosure(T)

\* the redirect chain n belongs to
Chain(n) == LinkClosure({n})

ChainFirst(n) == CHOOSE f \in Chain(n) : prev[f] = NULL
ChainLast(n)  == CHOOSE l \in Chain(n) : next[l] = NULL

\* the requests n is a sub-request of, n included
RECURSIVE MainClosure(_)
MainClosure(S) ==
    LET T == (S \cup { main[a] : a \in S }) \ {NULL}
    IN  IF T = S THEN S ELSE MainClosure(T)

\* the outermost request of n
Top(n) == CHOOSE t \in MainClosure({n}) : main[t] = NULL

CanonFirst(n) == ChainFirst(Top(n))
CanonLast(n)  == ChainLast(Top(n))

HasSnapshot(n) == notes_key_internal \in DOMAIN notes[n]
Snapshot(n)    == notes[n][notes_key_internal]

IsStart(c) == c.fn = "module_accounting_start"
IsStop(c)  == c.fn = "module_accounting_stop"

\* the decimal number a reader of the notes finds in a published text
DigitValue(c) == CHOOSE d \in 0..9 : DigitChars[d + 1] = c

RECURSIVE ParseUnsigned(_)
ParseUnsigned(s) ==
    IF s = <<>> THEN 0
    ELSE ParseUnsigned(SubSeq(s, 1, Len(s) - 1)) * 10 + DigitValue(s[Len(s)])

ParseLong(s) ==
    IF s[1] = "-" THEN 0 - ParseUnsigned(Tail(s)) ELSE ParseUnsigned(s)

\* end is strictly earlier than begin: whole seconds first, microseconds as
\* the tiebreak
Earlier(end, begin) ==
    \/ end.tv_sec < begin.tv_sec
    \/ end.tv_sec = begin.tv_sec /\ end.tv_usec < begin.tv_usec

\* the exact difference of two times, in microseconds
ExactMicros(begin, end) ==
    (end.tv_sec - begin.tv_sec) * 1000000 + (end.tv_usec - begin.tv_usec)

TimeDelta(begin, end)  == IF Earlier(end, begin) THEN 0 ELSE ExactMicros(begin, end)
BlockDelta(begin, end) == IF end < begin THEN 0 ELSE end - begin

-----------------------------------------------------------------------------
(* C1: in a chain of internally redirected requests with no main, a start   *)
(* hook called on any node of the chain leaves the begin snapshot on the    *)
(* chain's first node (the one with no prev) and touches no other notes     *)
(* table; a stop hook called on any node of a chain that has a snapshot     *)
(* sets the nine metric keys on the chain's last node (the one with no      *)
(* next) and touches no other notes table.                                  *)

C1_StartStep ==
    (IsStart(call') /\ main[call'.r] = NULL) =>
        LET f == ChainFirst(call'.r) IN
        /\ notes_key_internal \in DOMAIN notes'[f]
        /\ \A n \in NodeIds \ {f} :
              /\ notes'[n] = notes[n]
              /\ notes_key_internal \notin DOMAIN notes'[n]

C1_StopStep ==
    (IsStop(call') /\ main[call'.r] = NULL /\ HasSnapshot(ChainFirst(call'.r))) =>
        LET l == ChainLast(call'.r) IN
        /\ MetricKeys \subseteq DOMAIN notes'[l]
        /\ \A n \in NodeIds \ {l} : notes'[n] = notes[n]

\* C1: every start step and every stop step of a main-less chain writes the
\* snapshot on the chain's first node, the metrics on its last, nothing else
C1_FirstAndLast == [][C1_StartStep /\ C1_StopStep]_vars

\* A -> B -> C: the snapshot sits on A, a stop hook called on B has
\* published on C and on neither A nor B
C1_Witness ==
    /\ alloc = 3
    /\ next[1] = 2 /\ next[2] = 3 /\ next[3] = NULL
    /\ prev[1] = NULL /\ main[1] = NULL /\ main[2] = NULL /\ main[3] = NULL
    /\ IsStop(call) /\ call.r = 2
    /\ HasSnapshot(1) /\ ~HasSnapshot(2) /\ ~HasSnapshot(3)
    /\ MetricKeys \subseteq DOMAIN notes[3]
    /\ MetricKeys \cap DOMAIN notes[1] = {}
    /\ MetricKeys \cap DOMAIN notes[2] = {}

-----------------------------------------------------------------------------
(* C2: a start hook called on a node whose chain already has a begin        *)
(* snapshot makes no query and changes no notes table, so the snapshot      *)
(* stays the one the first call stored; after every start hook exactly one  *)
(* node resolving to that first node holds a snapshot.                      *)

C2_StartStep ==
    IsStart(call') =>
        LET f == CanonFirst(call'.r) IN
        /\ HasSnapshot(f) => (notes' = notes /\ syscalls' = <<>>)
        /\ Cardinality({ n \in Allocated :
                           /\ CanonFirst(n) = f
                           /\ notes_key_internal \in DOMAIN notes'[n] }) = 1

\* C2: every start step on a chain that has its snapshot is a no-op, and
\* leaves exactly one snapshot for the chain
C2_OneSnapshot == [][C2_StartStep]_vars

\* a start hook called on the second node of a chain that already had its
\* snapshot: it made no query
C2_Witness ==
    /\ alloc >= 2
    /\ IsStart(call) /\ call.r = 2
    /\ CanonFirst(2) = 1
    /\ HasSnapshot(1)
    /\ syscalls = <<>>

-----------------------------------------------------------------------------
(* The stop hook as the properties see it: the snapshot it read, the end    *)
(* values it sampled, and the nine pairs of fields the specification        *)
(* assigns to the nine keys.                                                *)

\* the most recent call was a stop hook that found the begin snapshot
Published == IsStop(call) /\ HasSnapshot(CanonFirst(call.r))

PublishedOn == notes[CanonLast(call.r)]

Pairs(b, e) ==
    << [key |-> notes_key_time, kind |-> "time",
       begin |-> b.begin_time, end |-> e.end_time],
      [key |-> notes_key_utime, kind |-> "time",
       begin |-> b.begin_own_usage.ru_utime, end |-> e.end_own_usage.ru_utime],
      [key |-> notes_key_stime, kind |-> "time",
       begin |-> b.begin_own_usage.ru_stime, end |-> e.end_own_usage.ru_stime],
      [key |-> notes_key_cutime, kind |-> "time",
       begin |-> b.begin_child_usage.ru_utime, end |-> e.end_child_usage.ru_utime],
      [key |-> notes_key_cstime, kind |-> "time",
       begin |-> b.begin_child_usage.ru_stime, end |-> e.end_child_usage.ru_stime],
      [key |-> notes_key_inblock, kind |-> "block",
       begin |-> b.begin_own_usage.ru_inblock, end |-> e.end_own_usage.ru_inblock],
      [key |-> notes_key_oublock, kind |-> "block",
       begin |-> b.begin_own_usage.ru_oublock, end |-> e.end_own_usage.ru_oublock],
      [key |-> notes_key_cinblock, kind |-> "block",
       begin |-> b.begin_child_usage.ru_inblock, end |-> e.end_child_usage.ru_inblock],
      [key |-> notes_key_coublock, kind |-> "block",
       begin |-> b.begin_child_usage.ru_oublock, end |-> e.end_child_usage.ru_oublock] >>

\* the pairs of the most recent stop hook
LastPairs == Pairs(Snapshot(CanonFirst(call.r)), end_data)

Backward(p) ==
    IF p.kind = "time" THEN Earlier(p.end, p.begin) ELSE p.end < p.begin

\* the difference of a pair that did not go backward
RawDifference(p) ==
    IF p.kind = "time" THEN ExactMicros(p.begin, p.end) ELSE p.end - p.begin

SpecDelta(p) ==
    IF p.kind = "time" THEN TimeDelta(p.begin, p.end)
    ELSE BlockDelta(p.begin, p.end)

\* the anomaly lines of the log, and the one a pair would cause
IsAnomaly(line) == line.msg \in {"Timetraveling", "Negative blockcount"}

Anomalies == SelectSeq(log, IsAnomaly)

AnomalyOf(p) ==
    IF p.kind = "time"
    THEN [level |-> "ERR", msg |-> "Timetraveling",
          begin_tv |-> p.begin, end_tv |-> p.end]
    ELSE [level |-> "ERR", msg |-> "Negative blockcount",
          begin_blk |-> p.begin, end_blk |-> p.end]

\* the pairs of the most recent stop hook that went backward, by position
BackwardPairs == { i \in 1..Len(LastPairs) : Backward(LastPairs[i]) }

Logged(msg) == \E i \in 1..Len(log) : log[i].msg = msg

-----------------------------------------------------------------------------
(* C3: every text published under one of the nine metric keys is the        *)
(* decimal form of a number >= 0.                                           *)

C3_PublishedNonNegative ==
    \A n \in Allocated : \A k \in MetricKeys \cap DOMAIN notes[n] :
        ParseLong(notes[n][k]) >= 0

-----------------------------------------------------------------------------
(* C4: a stop hook that found the begin snapshot leaves exactly the nine    *)
(* metric keys (beside the reserved key) on the last node, and the text     *)
(* under each key is the decimal form of the delta of that key's own pair   *)
(* of fields: the time delta for the five times, the block delta for the    *)
(* four block counts.                                                       *)

C4_EachKeyItsOwnDelta ==
    Published =>
        /\ DOMAIN PublishedOn \ {notes_key_internal} = MetricKeys
        /\ \A i \in 1..Len(LastPairs) :
              LET p == LastPairs[i] IN
              /\ PublishedOn[p.key] = apr_psprintf_ld(ParseLong(PublishedOn[p.key]))
              /\ ParseLong(PublishedOn[p.key]) = SpecDelta(p)

\* wall clock 1000.000000 -> 1002.250000 and own user time 0.500000 ->
\* 0.900000: duration 2250000 and user time 400000 are published
C4_Witness ==
    /\ Published
    /\ Snapshot(CanonFirst(call.r)).begin_time = timeval(1000, 0)
    /\ end_data.end_time = timeval(1002, 250000)
    /\ Snapshot(CanonFirst(call.r)).begin_own_usage.ru_utime = timeval(0, 500000)
    /\ end_data.end_own_usage.ru_utime = timeval(0, 900000)
    /\ PublishedOn[notes_key_time] = <<"2", "2", "5", "0", "0", "0", "0">>
    /\ PublishedOn[notes_key_utime] = <<"4", "0", "0", "0", "0", "0">>
    /\ CanonLast(call.r) # CanonFirst(call.r)

-----------------------------------------------------------------------------
(* C5: for end >= begin (seconds first, microseconds as the tiebreak)       *)
(* time_difference returns (end.sec - begin.sec) * 1000000 + (end.usec -    *)
(* begin.usec) and logs nothing.  Stated here for SpecTime, whose           *)
(* differences are small enough for a long int of either width; the same    *)
(* statement at the full range is C5_ExactOnEveryBuild below.               *)

C5_ExactWhenForward ==
    (call.fn = "time_difference" /\ ~Earlier(args.end, args.begin)) =>
        /\ ret = ExactMicros(args.begin, args.end)
        /\ log = <<>>

\* the borrow case: a later second with a smaller microsecond part
C5_Witness ==
    /\ call.fn = "time_difference"
    /\ args.end.tv_sec > args.begin.tv_sec
    /\ args.end.tv_usec < args.begin.tv_usec
    /\ ret > 0
    /\ ret < (args.end.tv_sec - args.begin.tv_sec) * 1000000

-----------------------------------------------------------------------------
(* C6: for end < begin (an earlier second, or the same second and an        *)
(* earlier microsecond) time_difference returns 0 and logs one              *)
(* "Timetraveling" error that carries both values.                          *)

C6_ZeroWhenBackward ==
    (call.fn = "time_difference" /\ Earlier(args.end, args.begin)) =>
        /\ ret = 0
        /\ log = << [level |-> "ERR", msg |-> "Timetraveling",
                     begin_tv |-> args.begin, end_tv |-> args.end] >>

\* the same second, an earlier microsecond
C6_Witness ==
    /\ call.fn = "time_difference"
    /\ args.end.tv_sec = args.begin.tv_sec
    /\ args.end.tv_usec < args.begin.tv_usec
    /\ ret = 0
    /\ Len(log) = 1

-----------------------------------------------------------------------------
(* C7: block_difference on counters >= 0 returns end - begin and logs       *)
(* nothing when end >= begin, and returns 0 and logs one "Negative          *)
(* blockcount" error that carries both values when begin > end.             *)

-----------------------------------------------------------------------------
(* C8: a stop hook called on a chain with no begin snapshot changes no      *)
(* notes table (so it publishes no metric key), logs the one line "Failed   *)
(* to fetch internal data!", makes no system call (no reap, no sampling:    *)
(* its end values stay whatever the memory held) and returns DECLINED.      *)

C8_StopStep ==
    (IsStop(call') /\ ~HasSnapshot(CanonFirst(call'.r))) =>
        /\ notes' = notes
        /\ log' = << [level |-> "ERR", msg |-> "Failed to fetch internal data!"] >>
        /\ syscalls' = <<>>
        /\ end_data' \in { uninit_locals(m) : m \in MemVals }
        /\ ret' = DECLINED

\* C8: every stop step on a chain without a snapshot publishes nothing, logs
\* the one "missing" line, samples nothing and returns DECLINED
C8_MissingSnapshot == [][C8_StopStep]_vars

\* a stop hook on the second node of a chain on which no start hook ran
C8_Witness ==
    /\ IsStop(call) /\ call.r = 2
    /\ CanonFirst(2) = 1 /\ ~HasSnapshot(1)
    /\ \A n \in NodeIds : DOMAIN notes[n] = {}
    /\ Len(log) = 1 /\ log[1].msg = "Failed to fetch internal data!"
    /\ syscalls = <<>>
    /\ ret = DECLINED

-----------------------------------------------------------------------------
(* C9: when exactly one of the nine pairs of a stop hook went backward,     *)
(* the text under that pair's key is "0", the log holds exactly one         *)
(* anomaly line and it carries that pair's values, and the other eight      *)
(* keys are there with the plain difference of their own pairs.             *)

C9_OneViolationIsLocal ==
    (Published /\ Cardinality(BackwardPairs) = 1) =>
        LET bad == CHOOSE i \in BackwardPairs : TRUE IN
        /\ MetricKeys \subseteq DOMAIN PublishedOn
        /\ PublishedOn[LastPairs[bad].key] = <<"0">>
        /\ Anomalies = << AnomalyOf(LastPairs[bad]) >>
        /\ \A i \in 1..Len(LastPairs) : i # bad =>
              ParseLong(PublishedOn[LastPairs[i].key]) = RawDifference(LastPairs[i])

\* own input blocks 50 -> 30 and nothing else backward: "0" under
\* ACC_inblock, one anomaly, own user time 0.500000 -> 0.900000 published
\* as 400000
C9_Witness ==
    /\ Published
    /\ Snapshot(CanonFirst(call.r)).begin_own_usage.ru_inblock = 50
    /\ end_data.end_own_usage.ru_inblock = 30
    /\ Cardinality(BackwardPairs) = 1
    /\ PublishedOn[notes_key_inblock] = <<"0">>
    /\ PublishedOn[notes_key_utime] = <<"4", "0", "0", "0", "0", "0">>
    /\ ParseLong(PublishedOn[notes_key_coublock]) > 0
    /\ Len(Anomalies) = 1
    /\ Anomalies[1].msg = "Negative blockcount"

-----------------------------------------------------------------------------
(* C10: when a query of a hook fails, the failure is logged, the snapshot   *)
(* is still stored (start) or the nine keys are still published (stop),     *)
(* and every field the failed query was to fill is 0.                       *)

C10_StartFieldsZero ==
    (IsStart(call) /\ syscalls # <<>>) =>
        /\ HasSnapshot(CanonFirst(call.r))
        /\ Logged("Request for (begin) time of day failed") =>
              Snapshot(CanonFirst(call.r)).begin_time = ZeroTime
        /\ Logged("Request for (begin) resource usage failed") =>
              Snapshot(CanonFirst(call.r)).begin_own_usage = ZeroUsage
        /\ Logged("Request for children's (begin) resource usage failed") =>
              Snapshot(CanonFirst(call.r)).begin_child_usage = ZeroUsage

C10_StopFieldsZero ==
    Published =>
        /\ MetricKeys \subseteq DOMAIN PublishedOn
        /\ Logged("Request for (end) time of day failed") =>
              end_data.end_time = ZeroTime
        /\ Logged("Request for (end) resource usage failed") =>
              end_data.end_own_usage = ZeroUsage
        /\ Logged("Request for children's (end) resource usage failed") =>
              end_data.end_child_usage = ZeroUsage

\* C10: after a failed query the hook has still stored / published, and the
\* fields that query was to fill are 0
C10_FailedQueryLeavesZero == C10_StartFieldsZero /\ C10_StopFieldsZero

-----------------------------------------------------------------------------
(* C11: whatever path a hook takes (the snapshot already there, newly       *)
(* stored, missing; a failed query; a pair that went backward; a normal     *)
(* publication) it returns DECLINED, the status that lets the server go on  *)
(* with the request.                                                        *)

C11_AlwaysDeclined ==
    (IsStart(call) \/ IsStop(call)) => ret = DECLINED

\* a stop hook whose time-of-day query failed and that met pairs that went
\* backward: it has published and returned DECLINED
C11_Witness ==
    /\ Published
    /\ Logged("Request for (end) time of day failed")
    /\ Len(Anomalies) > 0
    /\ MetricKeys \subseteq DOMAIN PublishedOn
    /\ ret = DECLINED

-----------------------------------------------------------------------------
(* C12: a hook called on a sub-request, however deeply nested, works on     *)
(* the chain of the outermost request: the start hook stores the snapshot   *)
(* on the first node of that chain, the stop hook reads it there and sets   *)
(* the nine keys on the last node of that chain, and the notes of every     *)
(* other request_rec, the sub-request's own included, stay as they were.    *)

C12_StartStep ==
    (IsStart(call') /\ main[call'.r] # NULL) =>
        \A f \in {CanonFirst(call'.r)} :
        /\ main[f] = NULL /\ prev[f] = NULL
        /\ f # call'.r
        /\ notes_key_internal \in DOMAIN notes'[f]
        /\ \A n \in NodeIds \ {f} : notes'[n] = notes[n]

C12_StopStep ==
    (IsStop(call') /\ main[call'.r] # NULL) =>
        \A f \in {CanonFirst(call'.r)}, l \in {CanonLast(call'.r)} :
        /\ main[l] = NULL /\ next[l] = NULL
        /\ l # call'.r
        /\ IF HasSnapshot(f)
           THEN /\ MetricKeys \subseteq DOMAIN notes'[l]
                /\ ParseLong(notes'[l][notes_key_time]) =
                       TimeDelta(Snapshot(f).begin_time, end_data'.end_time)
                /\ \A n \in NodeIds \ {l} : notes'[n] = notes[n]
           ELSE notes' = notes

\* C12: every start step and every stop step on a sub-request acts on the
\* first and last node of the outermost request's chain only
C12_OutermostChain == [][C12_StartStep /\ C12_StopStep]_vars

\* 3 is a sub-request of 2, 2 a sub-request of 1: the snapshot and, after a
\* stop hook called on 3, the nine keys are on 1, nothing is on 2 or 3
C12_Witness ==
    /\ alloc = 3
    /\ main[3] = 2 /\ main[2] = 1 /\ main[1] = NULL
    /\ IsStop(call) /\ call.r = 3
    /\ HasSnapshot(1)
    /\ MetricKeys \subseteq DOMAIN notes[1]
    /\ DOMAIN notes[2] = {} /\ DOMAIN notes[3] = {}

-----------------------------------------------------------------------------
(* C13: once a start hook has stored the begin snapshot of a transaction,   *)
(* the snapshot stays where it is while the server appends redirects and    *)
(* creates sub-requests and while further hooks run; a stop hook called on  *)
(* any request_rec of the transaction, those created later included, finds  *)
(* it (never "Failed to fetch internal data!"), computes the nine deltas    *)
(* against it and sets them on the node that is last when it is called.     *)
(* (\A x \in {e} names the value of e.)                                     *)

C13_Step ==
    LET S == { n \in Allocated : HasSnapshot(n) } IN
    /\ \A n \in S :
          /\ notes_key_internal \in DOMAIN notes'[n]
          /\ notes'[n][notes_key_internal] = Snapshot(n)
    /\ (IsStop(call') /\ S # {}) =>
          \A l \in {CanonLast(call'.r)} :
          /\ next'[l] = NULL
          /\ syscalls' # <<>>
          /\ \A i \in 1..Len(log') : log'[i].msg # "Failed to fetch internal data!"
          /\ MetricKeys \subseteq DOMAIN notes'[l]
          /\ \A n \in S : \A ps \in {Pairs(Snapshot(n), end_data')} :
                \A i \in 1..9 :
                    ParseLong(notes'[l][ps[i].key]) = SpecDelta(ps[i])

\* C13: every step keeps a stored snapshot, and every stop step after one
\* was stored finds it and publishes on the node that is last at that time
C13_FoundAfterGrowth == [][C13_Step]_vars

\* the nine keys on 1 tell of a stop hook that ran when 1 was the only
\* request_rec; since then 1 was redirected to 2 and 2 got the sub-request
\* 3, and a stop hook called on 3 has found the snapshot and published on 2
C13_Witness ==
    /\ alloc = 3
    /\ next[1] = 2 /\ main[3] = 2
    /\ HasSnapshot(1)
    /\ MetricKeys \subseteq DOMAIN notes[1]
    /\ IsStop(call) /\ call.r = 3
    /\ syscalls # <<>>
    /\ MetricKeys \subseteq DOMAIN notes[2]
    /\ DOMAIN notes[3] = {}

-----------------------------------------------------------------------------
(* C14: the stored begin snapshot is never changed and never taken out of   *)
(* the notes by a hook.  A stop hook does not use it up: a stop hook called *)
(* after the nine keys were already set computes the deltas against the     *)
(* same begin values and overwrites the nine keys, and a start hook called  *)
(* after a stop hook still changes nothing.                                 *)

C14_Step ==
    (IsStart(call') \/ IsStop(call')) =>
        \A f \in {CanonFirst(call'.r)}, l \in {CanonLast(call'.r)} :
        /\ HasSnapshot(f) =>
              /\ notes_key_internal \in DOMAIN notes'[f]
              /\ notes'[f][notes_key_internal] = Snapshot(f)
        /\ (IsStop(call') /\ MetricKeys \subseteq DOMAIN notes[l]) =>
              /\ HasSnapshot(f)
              /\ \A ps \in {Pairs(Snapshot(f), end_data')} : \A i \in 1..9 :
                    notes'[l][ps[i].key] = apr_psprintf_ld(SpecDelta(ps[i]))
        /\ (IsStart(call') /\ \E n \in Allocated : MetricKeys \subseteq DOMAIN notes[n]) =>
              /\ HasSnapshot(f)
              /\ notes' = notes
              /\ syscalls' = <<>>

\* C14: every hook step leaves the snapshot as it was; a repeated stop
\* computes against it again, a start after a stop is a no-op
C14_SnapshotImmutable == [][C14_Step]_vars

\* 1 was redirected to 2; a stop hook has published on 1 and a later one on
\* 2, with another duration, and the snapshot is still on 1
C14_Witness ==
    /\ alloc = 2
    /\ next[1] = 2
    /\ IsStop(call)
    /\ HasSnapshot(1)
    /\ MetricKeys \subseteq DOMAIN notes[1]
    /\ MetricKeys \subseteq DOMAIN notes[2]
    /\ notes[1][notes_key_time] # notes[2][notes_key_time]
    /\ ParseLong(notes[2][notes_key_time]) =
           TimeDelta(Snapshot(1).begin_time, end_data.end_time)

-----------------------------------------------------------------------------
(* C15: on every request graph the server builds, the loops that find the   *)
(* first and the last node come to an end whatever node they start from;    *)
(* they change no main, prev or next link and no notes table; the first     *)
(* node they end on has no prev, the last has no next; from a request_rec   *)
(* with no main, prev or next they end on that request_rec for both.  The   *)
(* nodes they end on are the ones start_initial, stop_initial and stop_last *)
(* name.                                                                    *)

C15_Resolved ==
    (walk.pc # "done" /\ walk'.pc = "done") =>
        LET w == walk' IN
        /\ prev[w.initial] = NULL
        /\ next[w.last] = NULL
        /\ (main[w.r] = NULL /\ prev[w.r] = NULL /\ next[w.r] = NULL) =>
              (w.initial = w.r /\ w.last = w.r)
        /\ w.initial = start_initial(w.r)
        /\ w.initial = stop_initial(w.r)
        /\ w.last = stop_last(w.r)

C15_LoopStep ==
    (walk' # walk) => UNCHANGED <<alloc, main, prev, next, notes>>

\* C15: the loops end, change neither links nor notes, and end on a
\* prev-less first node and a next-less last node
C15_ResolutionTerminates ==
    /\ [][C15_Resolved /\ C15_LoopStep]_vars
    /\ (walk.pc \in {"main", "prev", "next"}) ~> (walk.pc = "done")

\* 1 was redirected to 2, 3 is a sub-request of 1: the loops begun on 3 have
\* ended with initial = 1 and last = 2
C15_Witness ==
    /\ alloc = 3
    /\ next[1] = 2 /\ main[3] = 1
    /\ walk.pc = "done" /\ walk.r = 3
    /\ walk.initial = 1 /\ walk.last = 2

-----------------------------------------------------------------------------
(* C16: with two transactions that share no link, a hook reads and writes   *)
(* only the notes of the first and last node of the transaction its         *)
(* request_rec belongs to: whether it finds a snapshot depends on its own   *)
(* first node alone, it stores there, computes against what is stored       *)
(* there, publishes on its own last node, and leaves every other notes      *)
(* table untouched; each transaction has at most its one snapshot.          *)

\* the request_recs of the transaction n belongs to
Transaction(n) == { m \in Allocated : CanonFirst(m) = CanonFirst(n) }

C16_Step ==
    (IsStart(call') \/ IsStop(call')) =>
        \A f \in {CanonFirst(call'.r)}, l \in {CanonLast(call'.r)},
           own \in {Transaction(call'.r)} :
        /\ f \in own /\ l \in own
        /\ \A n \in NodeIds \ {f, l} : notes'[n] = notes[n]
        /\ \A n \in Allocated \ own : notes'[n] = notes[n]
        /\ Cardinality({ n \in own : notes_key_internal \in DOMAIN notes'[n] }) <= 1
        /\ (IsStart(call') /\ HasSnapshot(f)) => notes' = notes
        /\ (IsStart(call') /\ ~HasSnapshot(f)) =>
              /\ notes_key_internal \in DOMAIN notes'[f]
              /\ syscalls' # <<>>
        /\ (IsStop(call') /\ HasSnapshot(f)) =>
              \A ps \in {Pairs(Snapshot(f), end_data')} : \A i \in 1..9 :
                  /\ ps[i].key \in DOMAIN notes'[l]
                  /\ ParseLong(notes'[l][ps[i].key]) = SpecDelta(ps[i])
        /\ (IsStop(call') /\ ~HasSnapshot(f)) =>
              /\ notes' = notes
              /\ syscalls' = <<>>

\* C16: every hook step of either transaction stays within its own
\* transaction's first and last node
C16_OwnChainOnly == [][C16_Step]_vars

\* 1 and 2 are unlinked; each has its own snapshot, taken at different
\* times, and its own nine keys, the duration of each computed against its
\* own snapshot
C16_Witness ==
    /\ main[2] = NULL /\ prev[2] = NULL /\ next[1] = NULL
    /\ HasSnapshot(1) /\ HasSnapshot(2)
    /\ Snapshot(1).begin_time = timeval(1000, 0)
    /\ Snapshot(2).begin_time = timeval(1002, 250000)
    /\ MetricKeys \subseteq DOMAIN notes[1]
    /\ MetricKeys \subseteq DOMAIN notes[2]
    /\ notes[1][notes_key_time] = <<"2", "2", "5", "0", "0", "0", "0">>
    /\ notes[2][notes_key_time] = <<"0">>
    /\ IsStop(call) /\ call.r = 1

-----------------------------------------------------------------------------
(* C17: a stop hook first finds the first and last node and fetches the     *)
(* begin snapshot; only if it is there does it go on: it waits for a        *)
(* terminated child without blocking (wait4 .. WNOHANG), then samples the   *)
(* wall clock, its own usage and the children's usage, in that order, and   *)
(* then publishes the deltas of what it sampled.  The wait comes before the *)
(* sampling of the children's usage.  Without the snapshot it makes no      *)
(* system call and publishes nothing.                                       *)

C17_Step ==
    IsStop(call') =>
        \A f \in {CanonFirst(call'.r)}, l \in {CanonLast(call'.r)} :
        IF HasSnapshot(f)
        THEN /\ syscalls' = << "wait4", "gettimeofday", "getrusage(RUSAGE_SELF)",
                               "getrusage(RUSAGE_CHILDREN)" >>
             /\ \A i, j \in 1..Len(syscalls') :
                   (syscalls'[i] = "wait4" /\
                    syscalls'[j] = "getrusage(RUSAGE_CHILDREN)") => i < j
             /\ \A ps \in {Pairs(Snapshot(f), end_data')} : \A i \in 1..9 :
                   notes'[l][ps[i].key] = apr_psprintf_ld(SpecDelta(ps[i]))
        ELSE /\ syscalls' = <<>>
             /\ notes' = notes
             /\ \E i \in 1..Len(log') : log'[i].msg = "Failed to fetch internal data!"

\* C17: every stop step makes its system calls in the order wait, wall
\* clock, own usage, children's usage and publishes what it sampled, or,
\* with no snapshot, makes none and publishes nothing
C17_StopOrder == [][C17_Step]_vars

\* a stop hook called on the redirect target 2 found the snapshot on 1: its
\* first system call was the wait, its last the children's usage, and the
\* duration it published is that of the wall clock it sampled
C17_Witness ==
    /\ alloc = 2 /\ next[1] = 2
    /\ IsStop(call) /\ call.r = 2
    /\ HasSnapshot(1)
    /\ Len(syscalls) = 4
    /\ syscalls[1] = "wait4"
    /\ syscalls[4] = "getrusage(RUSAGE_CHILDREN)"
    /\ end_data.end_time = timeval(1002, 250000)
    /\ Snapshot(1).begin_time = timeval(1000, 0)
    /\ notes[2][notes_key_time] = <<"2", "2", "5", "0", "0", "0", "0">>

-----------------------------------------------------------------------------
(* C18: for begin <= end the number time_difference returns, and the         *)
(* decimal text published for it, are the exact difference in microseconds, *)
(* whatever its size within 64 bits: nothing between the computation, the   *)
(* return value and "%ld" narrows it.                                       *)

\* the exact difference of begin <= end, as sign, millions and units
ExactWide(begin, end) ==
    LET borrow == IF end.tv_usec < begin.tv_usec THEN 1 ELSE 0 IN
    [neg  |-> FALSE,
     mega |-> end.tv_sec - begin.tv_sec - borrow,
     unit |-> end.tv_usec - begin.tv_usec + borrow * 1000000]

\* the number a reader finds in a decimal text, as sign, millions and units
ParseWide(s) ==
    LET neg == s[1] = "-"
        d   == IF neg THEN Tail(s) ELSE s
    IN  IF Len(d) <= 6
        THEN [neg |-> neg, mega |-> 0, unit |-> ParseUnsigned(d)]
        ELSE [neg  |-> neg,
              mega |-> ParseUnsigned(SubSeq(d, 1, Len(d) - 6)),
              unit |-> ParseUnsigned(SubSeq(d, Len(d) - 5, Len(d)))]

\* C5, at the full range of the arguments and on either build: for
\* begin <= end time_difference returns the exact difference and logs
\* nothing
C5_ExactOnEveryBuild ==
    (call.fn = "time_difference" /\ ~Earlier(args.end, args.begin)) =>
        /\ ret = ExactWide(args.begin, args.end)
        /\ log = <<>>

\* C18: the returned number and the published text are the exact difference
C18_ExactToText ==
    (call.fn = "time_difference" /\ ~Earlier(args.end, args.begin)) =>
        /\ ret = ExactWide(args.begin, args.end)
        /\ ParseWide(notes[1][notes_key_time]) = ExactWide(args.begin, args.end)

\* C18, where a long int has 64 bits: there the returned number and the
\* published text are the exact difference
C18_ExactWhenLong64 ==
    (call.fn = "time_difference" /\ ~Earlier(args.end, args.begin)
        /\ args.long_bits = 64) =>
        /\ ret = ExactWide(args.begin, args.end)
        /\ ParseWide(notes[1][notes_key_time]) = ExactWide(args.begin, args.end)

\* C18, where a long int has 32 bits: differences up to 2^31 - 1
\* microseconds are returned and published exactly
C18_ExactBelow31Bits ==
    (call.fn = "time_difference" /\ ~Earlier(args.end, args.begin)
        /\ ExactWide(args.begin, args.end).mega < 2147) =>
        /\ ret = ExactWide(args.begin, args.end)
        /\ ParseWide(notes[1][notes_key_time]) = ExactWide(args.begin, args.end)

=============================================================================
